---- MODULE Spec2Model ----
(***************************************************************************)
(* A model of the myshell command interpreter (src/main.cpp): the read     *)
(* loop of main, the Tokenizer, splitIntoPipeline, extractRedirections,    *)
(* Builtins::tryRunInParent and Executor::runPipeline with the child       *)
(* processes it forks.                                                     *)
(*                                                                         *)
(* A character is a one-character string and a std::string is a sequence   *)
(* of characters, so that the Tokenizer scans the line character by        *)
(* character as the code does.                                             *)
(***************************************************************************)
EXTENDS Integers, Sequences, FiniteSets, TLC

(***************************************************************************)
(* Bounds of the model.                                                    *)
(***************************************************************************)
\* An input line is the concatenation of at most MaxChunks chunks.
MaxChunks == 4
\* The interpreter's descriptor table has the slots 0 .. MaxFd (RLIMIT_NOFILE).
MaxFd == 8
\* The number of lines the session reads before the reader reports end-of-input.
MaxLines == 1
\* The number of failures of pipe, fork and waitpid a session meets, beyond
\* the pipe calls that fail on a full descriptor table.
MaxFaults == 1

(***************************************************************************)
(* Strings.                                                                *)
(***************************************************************************)
Str_cd == <<"c", "d">>
Str_exit == <<"e", "x", "i", "t">>
Str_pwd == <<"p", "w", "d">>
Str_echo == <<"e", "c", "h", "o">>
Str_pipe == <<"|">>
Str_lt == <<"<">>
Str_gt == <<">">>
Str_gtgt == <<">", ">">>
Str_a == <<"a">>
Str_sp == <<" ">>
Str_bs == <<"\\">>

\* The pieces input lines are built from: the builtin names, an ordinary
\* word, a blank, the operators and the backslash.
Chunks == {Str_a, Str_cd, Str_echo, Str_exit, Str_pwd, Str_sp, Str_pipe,
           Str_gt, Str_lt, Str_bs}

RECURSIVE LinesOfChunks(_)
LinesOfChunks(n) ==
    IF n = 0 THEN {<<>>}
    ELSE LET shorter == LinesOfChunks(n - 1)
         IN  shorter \cup {l \o c : l \in shorter, c \in Chunks}

\* The lines the line reader can deliver.
Lines == LinesOfChunks(MaxChunks)

\* std::isspace in the "C" locale ('\v' has no TLA+ escape and is not in Chunks).
isspace(c) == c \in {" ", "\t", "\n", "\f", "\r"}

\* trim(s): s without its leading and trailing whitespace.
RECURSIVE trimLeft(_)
trimLeft(s) ==
    IF Len(s) > 0 /\ isspace(s[1]) THEN trimLeft(Tail(s)) ELSE s

RECURSIVE trimRight(_)
trimRight(s) ==
    IF Len(s) > 0 /\ isspace(s[Len(s)]) THEN trimRight(SubSeq(s, 1, Len(s) - 1))
    ELSE s

trim(s) == trimRight(trimLeft(s))

(***************************************************************************)
(* Tokenizer.  Positions are 1-based: m_i = k in the code is position k+1. *)
(***************************************************************************)
Word == "Word"
Op == "Op"
Token(type, text) == [type |-> type, text |-> text]

eof(line, i) == i > Len(line)
\* peek() returns the character NUL at end of input.
NUL == "NUL"
peek(line, i) == IF eof(line, i) THEN NUL ELSE line[i]

RECURSIVE skipWhitespace(_, _)
skipWhitespace(line, i) ==
    IF ~eof(line, i) /\ isspace(peek(line, i)) THEN skipWhitespace(line, i + 1)
    ELSE i

isOperatorStart(c) == c \in {"|", ">", "<", "&", ";"}

\* readOperator that never looks at the second character.
readOperatorOneChar(line, i) == [text |-> <<peek(line, i)>>, pos |-> i + 1]

\* readOperator: the operator's text and the position after it.
readOperator(line, i) ==
    LET c == peek(line, i)
    IN  IF c = ">"
        THEN IF ~eof(line, i + 1) /\ peek(line, i + 1) = ">"
             THEN [text |-> Str_gtgt, pos |-> i + 2]
             ELSE [text |-> Str_gt, pos |-> i + 1]
        ELSE [text |-> <<c>>, pos |-> i + 1]

\* A quoted span without escapes: everything up to the next q is literal.
RECURSIVE readQuotedLiteral(_, _, _, _)
readQuotedLiteral(line, i, out, q) ==
    IF eof(line, i) THEN [text |-> out, pos |-> i]
    ELSE IF peek(line, i) = q THEN [text |-> out, pos |-> i + 1]
    ELSE readQuotedLiteral(line, i + 1, Append(out, line[i]), q)

\* The inner loop of a quoted span: everything up to the closing quote q;
\* inside double quotes a backslash that is not the last character emits
\* the character after it.
RECURSIVE readQuoted(_, _, _, _)
readQuoted(line, i, out, q) ==
    IF eof(line, i) THEN [text |-> out, pos |-> i]
    ELSE IF peek(line, i) = q THEN [text |-> out, pos |-> i + 1]
    ELSE IF q = "\"" /\ line[i] = "\\" /\ ~eof(line, i + 1)
         THEN readQuoted(line, i + 2, Append(out, line[i + 1]), q)
    ELSE readQuoted(line, i + 1, Append(out, line[i]), q)

RECURSIVE readWordFrom(_, _, _)
readWordFrom(line, i, out) ==
    IF eof(line, i) THEN [text |-> out, pos |-> i]
    ELSE LET c == peek(line, i)
         IN  IF isspace(c) \/ isOperatorStart(c) THEN [text |-> out, pos |-> i]
             ELSE IF c \in {"'", "\""}
                  THEN LET r == readQuoted(line, i + 1, out, c)
                       IN  readWordFrom(line, r.pos, r.text)
             ELSE IF c = "\\"
                  THEN IF ~eof(line, i + 1)
                       THEN readWordFrom(line, i + 2, Append(out, line[i + 1]))
                       ELSE readWordFrom(line, i + 1, out)
             ELSE readWordFrom(line, i + 1, Append(out, c))

readWord(line, i) == readWordFrom(line, i, <<>>)

RECURSIVE tokenizeFrom(_, _, _)
tokenizeFrom(line, i, out) ==
    LET j == skipWhitespace(line, i)
    IN  IF eof(line, j) THEN out
        ELSE IF isOperatorStart(peek(line, j))
             THEN LET r == readOperator(line, j)
                  IN  tokenizeFrom(line, r.pos, Append(out, Token(Op, r.text)))
             ELSE LET r == readWord(line, j)
                  IN  tokenizeFrom(line, r.pos, Append(out, Token(Word, r.text)))

tokenize(line) == tokenizeFrom(line, 1, <<>>)

(***************************************************************************)
(* Pipeline splitter and redirection extractor.                            *)
(***************************************************************************)
\* The loop of splitIntoPipeline from token k on, with the stages pushed so
\* far and the stage being built.
RECURSIVE splitFrom(_, _, _, _)
splitFrom(tokens, k, pipeline, current) ==
    IF k > Len(tokens)
    THEN IF current # <<>> THEN Append(pipeline, current) ELSE pipeline
    ELSE IF tokens[k].type = Op /\ tokens[k].text = Str_pipe
         THEN splitFrom(tokens, k + 1, Append(pipeline, current), <<>>)
    ELSE IF tokens[k].type = Word
         THEN splitFrom(tokens, k + 1, pipeline, Append(current, tokens[k].text))
    ELSE splitFrom(tokens, k + 1, pipeline, current)

splitIntoPipeline(tokens) == splitFrom(tokens, 1, <<>>, <<>>)

\* A default-constructed RedirectionInfo.
NoRedirection == [stdin_file |-> <<>>, stdout_file |-> <<>>, stdout_append |-> FALSE]

\* extractRedirections where the first redirection of a direction stays.
RECURSIVE extractFromKeepFirst(_, _, _, _)
extractFromKeepFirst(cmdTokens, i, argv, r) ==
    IF i > Len(cmdTokens) THEN [argv |-> argv, rinfo |-> r]
    ELSE LET t == cmdTokens[i]
             more == i + 1 <= Len(cmdTokens)
         IN  IF t = Str_lt
             THEN extractFromKeepFirst(cmdTokens, IF more THEN i + 2 ELSE i + 1, argv,
                     IF more /\ r.stdin_file = <<>>
                     THEN [r EXCEPT !.stdin_file = trim(cmdTokens[i + 1])] ELSE r)
             ELSE IF t = Str_gt \/ t = Str_gtgt
             THEN extractFromKeepFirst(cmdTokens, IF more THEN i + 2 ELSE i + 1, argv,
                     IF more /\ r.stdout_file = <<>>
                     THEN [r EXCEPT !.stdout_file = trim(cmdTokens[i + 1]),
                                    !.stdout_append = (t = Str_gtgt)]
                     ELSE r)
             ELSE extractFromKeepFirst(cmdTokens, i + 1, Append(argv, t), r)

\* The loop of extractRedirections from string i on.
RECURSIVE extractFrom(_, _, _, _)
extractFrom(cmdTokens, i, argv, r) ==
    IF i > Len(cmdTokens) THEN [argv |-> argv, rinfo |-> r]
    ELSE LET t == cmdTokens[i]
         IN  IF t = Str_lt
             THEN IF i + 1 <= Len(cmdTokens)
                  THEN extractFrom(cmdTokens, i + 2, argv,
                                   [r EXCEPT !.stdin_file = trim(cmdTokens[i + 1])])
                  ELSE extractFrom(cmdTokens, i + 1, argv, r)
             ELSE IF t = Str_gt \/ t = Str_gtgt
             THEN IF i + 1 <= Len(cmdTokens)
                  THEN extractFrom(cmdTokens, i + 2, argv,
                                   [r EXCEPT !.stdout_file = trim(cmdTokens[i + 1]),
                                             !.stdout_append = (t = Str_gtgt)])
                  ELSE extractFrom(cmdTokens, i + 1, argv, r)
             ELSE extractFrom(cmdTokens, i + 1, Append(argv, t), r)

extractRedirections(cmdTokens) == extractFrom(cmdTokens, 1, <<>>, NoRedirection)

(***************************************************************************)
(* Builtins.  The interpreter's environment is a function from names to    *)
(* values; the directories that exist are Dirs.                            *)
(***************************************************************************)
Str_HOME == <<"H", "O", "M", "E">>
Str_root == <<"/">>
Str_home == <<"/", "h">>
Str_nodir == <<"/", "n">>
Str_nl == <<"\n">>

\* The directories of the file system: the root, a home and the directory a
\* of the root.
Dirs == {Str_root, Str_home, Str_root \o Str_a}

\* The environments a session can start with: HOME unset, HOME a directory,
\* HOME a path that is no directory.
Environments == {<<>>} \cup {[n \in {Str_HOME} |-> v] : v \in {Str_home, Str_nodir}}

getenv_or_empty(env, name) == IF name \in DOMAIN env THEN env[name] ELSE <<>>

\* The path fs::current_path(p) changes to: p itself when absolute, else p
\* below the working directory.
resolvePath(cwd, p) ==
    IF p # <<>> /\ p[1] = "/" THEN p
    ELSE IF cwd = Str_root THEN cwd \o p
    ELSE cwd \o Str_root \o p

\* current_path that changes the directory whether or not the path exists.
current_pathUnchecked(cwd, p) == resolvePath(cwd, p)

\* fs::current_path(p): the new working directory; it throws, and the
\* catch leaves the directory as it was, when the path is no directory.
current_path(cwd, p) ==
    IF resolvePath(cwd, p) \in Dirs THEN resolvePath(cwd, p) ELSE cwd

\* What echo writes to std::cout for the arguments from i on.
RECURSIVE echoFrom(_, _, _)
echoFrom(env, words, i) ==
    IF i > Len(words) THEN Str_nl
    ELSE LET w == words[i]
             shown == IF w # <<>> /\ w[1] = "$" THEN getenv_or_empty(env, Tail(w))
                      ELSE w
         IN  shown \o (IF i + 1 <= Len(words) THEN Str_sp ELSE <<>>)
                   \o echoFrom(env, words, i + 1)

\* What tryRunInParent reports: whether the command was handled, the
\* working directory it leaves and what it wrote to std::cout.
Handled(dir, out) == [handled |-> TRUE, cwd |-> dir, out |-> out]
NotHandled(dir) == [handled |-> FALSE, cwd |-> dir, out |-> <<>>]

\* cd [dir]
runCd(e, dir, words) ==
    IF Len(words) = 1
    THEN LET home == getenv_or_empty(e, Str_HOME)
         IN  IF home = <<>> THEN Handled(dir, <<>>)
             ELSE Handled(current_path(dir, home), <<>>)
    ELSE Handled(current_path(dir, words[2]), <<>>)

\* pwd that is not in the builtin table.
runPwdInChild(dir) == NotHandled(dir)

\* pwd
runPwd(dir) == Handled(dir, dir \o Str_nl)

\* echo [args...]
runEcho(e, dir, words) == Handled(dir, echoFrom(e, words, 2))

\* Builtins::tryRunInParent(words).
tryRunInParent(e, dir, words) ==
    IF words = <<>> THEN NotHandled(dir)
    ELSE LET cmd == words[1]
         IN  IF cmd = Str_cd THEN runCd(e, dir, words)
             ELSE IF cmd = Str_exit THEN Handled(dir, <<>>)
             ELSE IF cmd = Str_pwd THEN runPwd(dir)
             ELSE IF cmd = Str_echo THEN runEcho(e, dir, words)
             ELSE NotHandled(dir)

(***************************************************************************)
(* Descriptors, wait statuses and processes.                               *)
(***************************************************************************)
Fds == 0 .. MaxFd

\* What a descriptor refers to.
Closed == [kind |-> "closed", pipe |-> 0, end |-> "", name |-> <<>>]
Tty == [kind |-> "tty", pipe |-> 0, end |-> "", name |-> <<>>]
PipeEnd(p, e) == [kind |-> "pipe", pipe |-> p, end |-> e, name |-> <<>>]
File(f, mode) == [kind |-> "file", pipe |-> 0, end |-> mode, name |-> f]

\* The descriptor table of the interpreter when it starts: the terminal on
\* 0, 1 and 2.
InitialFdt == [fd \in Fds |-> IF fd <= 2 THEN Tty ELSE Closed]
AllClosed == [fd \in Fds |-> Closed]

FreeFds(t) == {fd \in Fds : t[fd] = Closed}
LowestFree(t) == CHOOSE fd \in FreeFds(t) : \A g \in FreeFds(t) : fd <= g

\* closeAll that closes the read ends only: the descriptors at the even
\* indices of the vector.
closeAllReadEnds(t, fds) ==
    [fd \in Fds |-> IF \E j \in 1 .. Len(fds) : j % 2 = 1 /\ fds[j] = fd THEN Closed
                    ELSE t[fd]]

\* closeAll that closes every descriptor up to the highest one of fds.
closeAllUpTo(t, fds) ==
    [fd \in Fds |-> IF \E j \in 1 .. Len(fds) : fd <= fds[j] THEN Closed ELSE t[fd]]

\* closeAll(fds) on the table t; closing a closed descriptor fails silently.
closeAll(t, fds) ==
    [fd \in Fds |-> IF \E j \in 1 .. Len(fds) : fds[j] = fd THEN Closed ELSE t[fd]]

\* Wait statuses as waitpid stores them.
ExitedWith(code) == code * 256
KilledBy(sig) == sig
WIFEXITED(st) == st % 128 = 0
WEXITSTATUS(st) == (st \div 256) % 256
ExecFailure == 127

\* The statuses a running program can end with: exit(0), exit(1), or
\* killed by a signal.
ProgramStatuses == {ExitedWith(0), ExitedWith(1), KilledBy(13)}

VARIABLES
    pc,          \* where the interpreter is: "top", "read", "pipe", "spawn",
                 \* "close", "wait", "done"
    nread,       \* the lines read so far
    tokens,      \* main: tokens
    pipeline,    \* main: pipeline, and runPipeline's argument
    outcome,     \* how the current line was dispatched
    env,         \* the environment
    cwd,         \* the interpreter's working directory
    termOut,     \* what the current line wrote to the interpreter's std::cout
    files,       \* the regular files: name -> contents
    fdt,         \* the interpreter's descriptor table
    pipefds,     \* runPipeline: pipefds
    i,           \* runPipeline: i of the pipe loop
    idx,         \* runPipeline: idx of the spawn loop
    pids,        \* runPipeline: pids
    w,           \* runPipeline: position of the wait loop in pids
    status,      \* runPipeline: status
    exit_status, \* main: exit_status, <<>> until runPipeline has returned
    procs,       \* the child processes: pid -> process
    faults,      \* the failures of pipe, fork and waitpid injected so far
    m_line,      \* Tokenizer: m_line, <<>> while no Tokenizer is at work
    m_i,         \* Tokenizer: the position m_i is at (1-based), 0 while none is
    out          \* Tokenizer::tokenize: out

vars == <<pc, nread, tokens, pipeline, outcome, env, cwd, termOut, files, fdt,
          pipefds, i, idx, pids, w, status, exit_status, procs, faults,
          m_line, m_i, out>>

\* The variables of main's loop body and of runPipeline's frame.
tokenizerVars == <<m_line, m_i, out>>
lineVars == <<tokens, pipeline, outcome, termOut, tokenizerVars>>
frameVars == <<pipefds, i, idx, pids, w, status, exit_status>>
worldVars == <<env, cwd, files, fdt, procs, faults>>

Init ==
    /\ pc = "top"
    /\ nread = 0
    /\ tokens = <<>>
    /\ pipeline = <<>>
    /\ outcome = "none"
    /\ env \in Environments
    /\ cwd = Str_root
    /\ termOut = <<>>
    /\ files = <<>>
    /\ fdt = InitialFdt
    /\ pipefds = <<>>
    /\ i = 0
    /\ idx = 0
    /\ pids = <<>>
    /\ w = 1
    /\ status = 0
    /\ exit_status = <<>>
    /\ procs = <<>>
    /\ faults = 0
    /\ m_line = <<>>
    /\ m_i = 0
    /\ out = <<>>

(***************************************************************************)
(* main: the read loop.                                                    *)
(***************************************************************************)
\* printPrompt() and the fresh locals of a new iteration of the loop.
Prompt ==
    /\ pc = "top"
    /\ pc' = "read"
    /\ tokens' = <<>>
    /\ pipeline' = <<>>
    /\ outcome' = "none"
    /\ termOut' = <<>>
    /\ pipefds' = <<>>
    /\ i' = 0
    /\ idx' = 0
    /\ pids' = <<>>
    /\ w' = 1
    /\ status' = 0
    /\ exit_status' = <<>>
    \* only the children that still run are kept: one that has terminated
    \* does nothing more
    /\ procs' = [p \in {q \in DOMAIN procs : procs[q].state \in {"forked", "running"}}
                    |-> procs[p]]
    /\ UNCHANGED <<nread, env, cwd, files, fdt, faults>>
    /\ UNCHANGED tokenizerVars

\* Where runPipeline goes after its pipe loop has run i times, and after
\* its spawn loop has run idx times, for n stages.
afterPipes(n, done) == IF done + 1 < n THEN "pipe" ELSE "spawn"
afterSpawn(n, done) == IF done < n THEN "spawn" ELSE "close"

\* The loop body leaves by break: the session is over.
Leave(how, toks) ==
    /\ pc' = "done"
    /\ outcome' = how
    /\ tokens' = toks
    /\ UNCHANGED <<pipeline, termOut, cwd>>
    /\ UNCHANGED frameVars

\* The loop body leaves by continue, having run nothing.
Continue(how, toks, pl) ==
    /\ pc' = "top"
    /\ outcome' = how
    /\ tokens' = toks
    /\ pipeline' = pl
    /\ UNCHANGED <<termOut, cwd>>
    /\ UNCHANGED frameVars

\* The loop body calls executor.runPipeline(pl): the frame of the call up
\* to its first system call.
CallRunPipeline(toks, pl) ==
    /\ outcome' = "run"
    /\ tokens' = toks
    /\ pipeline' = pl
    /\ UNCHANGED <<termOut, cwd>>
    /\ IF pl = <<>>
       THEN /\ pc' = "top"
            /\ exit_status' = <<0>>
            /\ UNCHANGED <<pipefds, i, idx, pids, w, status>>
       ELSE /\ pc' = afterPipes(Len(pl), 0)
            /\ UNCHANGED frameVars

\* exit as the first token, whatever follows it.
startsWithExit(toks) == toks # <<>> /\ toks[1].type = Word /\ toks[1].text = Str_exit

\* The test of main for the line that ends the session.
isBareExit(toks) == Len(toks) = 1 /\ toks[1].type = Word /\ toks[1].text = Str_exit

\* How the loop body leaves for the tokens toks: by break ("exit"), by one
\* of its three continues, or through runPipeline ("run").
dispatch(e, dir, toks) ==
    IF isBareExit(toks) THEN "exit"
    ELSE LET pl == splitIntoPipeline(toks)
         IN  IF pl = <<>> THEN "nopipeline"
             ELSE IF Len(pl) = 1
             THEN IF extractRedirections(pl[1]).argv = <<>> THEN "noargv"
                  ELSE IF tryRunInParent(e, dir, extractRedirections(pl[1]).argv).handled
                       THEN "builtin"
                  ELSE "run"
             ELSE "run"

\* The loop body from the tokens on.
Dispatch(toks) ==
    LET how == dispatch(env, cwd, toks)
        pl == splitIntoPipeline(toks)
    IN  CASE how = "exit" -> Leave("exit", toks)
          [] how \in {"nopipeline", "noargv"} -> Continue(how, toks, pl)
          [] how = "builtin" ->
                LET b == tryRunInParent(env, cwd, extractRedirections(pl[1]).argv)
                IN  /\ pc' = "top"
                    /\ outcome' = "builtin"
                    /\ tokens' = toks
                    /\ pipeline' = pl
                    /\ cwd' = b.cwd
                    /\ termOut' = b.out
                    /\ UNCHANGED frameVars
          [] how = "run" -> CallRunPipeline(toks, pl)

\* std::getline reports end-of-input.
ReadEof ==
    /\ pc = "read"
    /\ Leave("eof", <<>>)
    /\ UNCHANGED <<nread, env, files, fdt, procs, faults>>
    /\ UNCHANGED tokenizerVars

\* std::getline delivers a line, and the loop body runs on it up to its
\* break, its continue or the first system call of runPipeline.  The
\* Tokenizer is made, used and gone within this step.
ReadLine ==
    /\ pc = "read"
    /\ nread < MaxLines
    /\ \E line \in Lines :
          IF trim(line) = <<>> THEN Continue("blank", <<>>, <<>>)
          ELSE Dispatch(tokenize(line))
    /\ nread' = nread + 1
    /\ UNCHANGED <<env, files, fdt, procs, faults>>
    /\ UNCHANGED tokenizerVars

(***************************************************************************)
(* Executor::runPipeline, from the first system call on.                   *)
(***************************************************************************)
n == Len(pipeline)

\* The value runPipeline returns after its wait loop, from status.
resultOf(st) == IF WIFEXITED(st) THEN WEXITSTATUS(st) ELSE -1

\* runPipeline returns v to main, which goes to the top of its loop.
Return(v) ==
    /\ pc' = "top"
    /\ exit_status' = <<v>>

\* pipe(fds) succeeds: the two lowest free descriptors become the read and
\* the write end of a new pipe.
TwoFree(t) == Cardinality(FreeFds(t)) >= 2
pipeRead(t) == LowestFree(t)
pipeWrite(t) == LowestFree([t EXCEPT ![pipeRead(t)] = Tty])

\* A pipe is named by a number: the new pipe gets the lowest number no
\* descriptor of any process refers to.
pipesInUse ==
    {fdt[fd].pipe : fd \in Fds} \cup {procs[p].fdt[fd].pipe : p \in DOMAIN procs, fd \in Fds}
newPipe == CHOOSE q \in 1 .. Cardinality(pipesInUse) + 1 : q \notin pipesInUse

CreatePipe ==
    /\ pc = "pipe"
    /\ TwoFree(fdt)
    /\ fdt' = [fdt EXCEPT ![pipeRead(fdt)] = PipeEnd(newPipe, "r"),
                          ![pipeWrite(fdt)] = PipeEnd(newPipe, "w")]
    /\ pipefds' = pipefds \o <<pipeRead(fdt), pipeWrite(fdt)>>
    /\ i' = i + 1
    /\ pc' = afterPipes(n, i + 1)
    /\ UNCHANGED <<nread, env, cwd, files, procs, faults>>
    /\ UNCHANGED <<idx, pids, w, status, exit_status>>
    /\ UNCHANGED lineVars

\* pipe(fds) fails, on a full descriptor table or otherwise: return -1.
PipeFails ==
    /\ pc = "pipe"
    /\ \/ ~TwoFree(fdt) /\ UNCHANGED faults
       \/ faults < MaxFaults /\ faults' = faults + 1
    /\ Return(-1)
    /\ UNCHANGED <<nread, env, cwd, files, fdt, procs>>
    /\ UNCHANGED <<pipefds, i, idx, pids, w, status>>
    /\ UNCHANGED lineVars

\* The stage the spawn loop is at with its redirections left in.
stageUncleaned == [argv |-> pipeline[idx + 1], rinfo |-> NoRedirection]

\* The stage the spawn loop is at, cleaned.
stage == extractRedirections(pipeline[idx + 1])

\* if (argvWords.empty()) continue;
SkipStage ==
    /\ pc = "spawn"
    /\ stage.argv = <<>>
    /\ idx' = idx + 1
    /\ pc' = afterSpawn(n, idx + 1)
    /\ UNCHANGED worldVars
    /\ UNCHANGED <<nread, pipefds, i, pids, w, status, exit_status>>
    /\ UNCHANGED lineVars

\* The process fork() creates: a copy of the interpreter at the fork.
newPid == CHOOSE p \in 1 .. Cardinality(DOMAIN procs) + 1 : p \notin DOMAIN procs

Child ==
    [state |-> "forked", call |-> nread, idx |-> idx, n |-> n, pipefds |-> pipefds,
     argv |-> stage.argv, rinfo |-> stage.rinfo, fdt |-> fdt, status |-> 0,
     waited |-> FALSE]

ForkChild ==
    /\ pc = "spawn"
    /\ stage.argv # <<>>
    /\ procs' = [p \in DOMAIN procs \cup {newPid} |->
                    IF p = newPid THEN Child ELSE procs[p]]
    /\ pids' = Append(pids, newPid)
    /\ idx' = idx + 1
    /\ pc' = afterSpawn(n, idx + 1)
    /\ UNCHANGED <<nread, env, cwd, files, fdt, faults>>
    /\ UNCHANGED <<pipefds, i, w, status, exit_status>>
    /\ UNCHANGED lineVars

\* fork() fails: closeAll(pipefds); return -1.
ForkFails ==
    /\ pc = "spawn"
    /\ stage.argv # <<>>
    /\ faults < MaxFaults
    /\ faults' = faults + 1
    /\ fdt' = closeAll(fdt, pipefds)
    /\ Return(-1)
    /\ UNCHANGED <<nread, env, cwd, files, procs>>
    /\ UNCHANGED <<pipefds, i, idx, pids, w, status>>
    /\ UNCHANGED lineVars

\* The wait loop at position k with status st: the next waitpid, or the
\* return when every pid has been gone through.
WaitFrom(k, st) ==
    /\ w' = k
    /\ status' = st
    /\ IF k <= Len(pids)
       THEN pc' = "wait" /\ UNCHANGED exit_status
       ELSE Return(resultOf(st))

\* The parent after the spawn loop: closeAll(pipefds), then the wait loop
\* up to its first waitpid.
ParentCloseAll ==
    /\ pc = "close"
    /\ fdt' = closeAll(fdt, pipefds)
    /\ WaitFrom(1, 0)
    /\ UNCHANGED <<nread, env, cwd, files, procs, faults>>
    /\ UNCHANGED <<pipefds, i, idx, pids>>
    /\ UNCHANGED lineVars

\* waitpid(pid, &status, 0) returns for a child that has terminated.
WaitChild ==
    /\ pc = "wait"
    /\ procs[pids[w]].state = "zombie"
    /\ procs' = [procs EXCEPT ![pids[w]].state = "reaped", ![pids[w]].waited = TRUE]
    /\ WaitFrom(w + 1, procs[pids[w]].status)
    /\ UNCHANGED <<nread, env, cwd, files, fdt, faults>>
    /\ UNCHANGED <<pipefds, i, idx, pids>>
    /\ UNCHANGED lineVars

\* waitpid fails: perror, status is left as it was, the loop goes on.
WaitFails ==
    /\ pc = "wait"
    /\ faults < MaxFaults
    /\ faults' = faults + 1
    /\ procs' = [procs EXCEPT ![pids[w]].waited = TRUE]
    /\ WaitFrom(w + 1, status)
    /\ UNCHANGED <<nread, env, cwd, files, fdt>>
    /\ UNCHANGED <<pipefds, i, idx, pids>>
    /\ UNCHANGED lineVars

(***************************************************************************)
(* The child between fork and exec, and the program it executes.           *)
(***************************************************************************)
\* The places the child can fail at; "none": it reaches the program.
FailPoints == {"none", "dup2 stdin", "dup2 stdout", "open in", "dup2 stdin-file",
               "open out", "dup2 stdout-file", "execvp"}

\* open(name, O_WRONLY | O_CREAT | (append ? O_APPEND : O_TRUNC), 0644) on
\* the files fls.
openForWriting(fls, name, append) ==
    [f \in DOMAIN fls \cup {name} |->
        IF f = name THEN (IF name \in DOMAIN fls /\ append THEN fls[name] ELSE <<>>)
        ELSE fls[f]]

\* The descriptor a child wires to its standard output when it takes the
\* read end of its pipe.
wfdReadEnd(p) == p.pipefds[p.idx * 2 + 1]

\* rfd and wfd of the child p: the read end of the pipe before its stage
\* and the write end of the pipe after it (pipefds is 1-based here).
rfd(p) == p.pipefds[(p.idx - 1) * 2 + 1]
wfd(p) == p.pipefds[p.idx * 2 + 2]

\* The child's code from fork to execvp for process p, on the files fls,
\* failing at `fail` if it gets there: whether the program is reached, the
\* descriptor table then, and the files.
childSetup(p, fls, fail) ==
    LET t0 == p.fdt
        pipeIn == p.idx > 0
        pipeInOk == pipeIn => (fail # "dup2 stdin" /\ t0[rfd(p)] # Closed)
        t1 == IF pipeIn THEN [t0 EXCEPT ![0] = t0[rfd(p)]] ELSE t0
        pipeOut == p.idx + 1 < p.n
        pipeOutOk == pipeOut => (fail # "dup2 stdout" /\ t1[wfd(p)] # Closed)
        t2 == IF pipeOut THEN [t1 EXCEPT ![1] = t1[wfd(p)]] ELSE t1
        t3 == closeAll(t2, p.pipefds)
        fileIn == p.rinfo.stdin_file # <<>>
        fileInOk == fileIn => /\ fail \notin {"open in", "dup2 stdin-file"}
                              /\ p.rinfo.stdin_file \in DOMAIN fls
                              /\ FreeFds(t3) # {}
        t4 == IF fileIn THEN [t3 EXCEPT ![0] = File(p.rinfo.stdin_file, "r")] ELSE t3
        fileOut == p.rinfo.stdout_file # <<>>
        opened == fileOut /\ fail # "open out" /\ FreeFds(t4) # {}
        fileOutOk == fileOut => (opened /\ fail # "dup2 stdout-file")
        t5 == IF fileOut
              THEN [t4 EXCEPT ![1] = File(p.rinfo.stdout_file,
                                         IF p.rinfo.stdout_append THEN "a" ELSE "w")]
              ELSE t4
        before == pipeInOk /\ pipeOutOk /\ fileInOk
    IN  [ok |-> before /\ fileOutOk /\ fail # "execvp",
         fdt |-> t5,
         files |-> IF before /\ opened
                   THEN openForWriting(fls, p.rinfo.stdout_file, p.rinfo.stdout_append)
                   ELSE fls]

\* A child that goes on to its program although a step before it failed.
execsAnyway(p) == [p EXCEPT !.state = "running"]

\* perror(...); _exit(127): the child p is a zombie, its descriptors closed.
exitsWithFailure(p) ==
    [p EXCEPT !.state = "zombie", !.fdt = AllClosed, !.status = ExitedWith(ExecFailure)]

\* The child runs from fork to the program, or to _exit(127).
ChildRun(c) ==
    /\ procs[c].state = "forked"
    /\ \E fail \in FailPoints :
          LET r == childSetup(procs[c], files, fail)
          IN  /\ procs' = [procs EXCEPT ![c] =
                              IF r.ok
                              THEN [@ EXCEPT !.state = "running", !.fdt = r.fdt]
                              ELSE exitsWithFailure(@)]
              /\ files' = r.files
    /\ UNCHANGED <<pc, nread, env, cwd, fdt, faults>>
    /\ UNCHANGED frameVars
    /\ UNCHANGED lineVars

\* The program of a child terminates: its descriptors are closed and it
\* stays a zombie until it is waited for.
ChildTerminate(c) ==
    /\ procs[c].state = "running"
    /\ \E st \in ProgramStatuses :
          procs' = [procs EXCEPT ![c].state = "zombie", ![c].fdt = AllClosed,
                                 ![c].status = st]
    /\ UNCHANGED <<pc, nread, env, cwd, files, fdt, faults>>
    /\ UNCHANGED frameVars
    /\ UNCHANGED lineVars

Next ==
    \/ Prompt
    \/ ReadEof
    \/ ReadLine
    \/ CreatePipe
    \/ PipeFails
    \/ SkipStage
    \/ ForkChild
    \/ ForkFails
    \/ ParentCloseAll
    \/ WaitChild
    \/ WaitFails
    \/ \E c \in DOMAIN procs : ChildRun(c)
    \/ \E c \in DOMAIN procs : ChildTerminate(c)

Spec == Init /\ [][Next]_vars

(***************************************************************************)
(* runPipeline on its own: the interpreter at the call of runPipeline for  *)
(* the tokens of a line, drawn from the words a, <, > and the operator |.  *)
(***************************************************************************)
\* A line of SpecRun has at most MaxTokens tokens.
MaxTokens == 5

RunAlphabet == {Token(Word, Str_a), Token(Word, Str_lt), Token(Word, Str_gt),
                Token(Op, Str_pipe)}

RunTokens == UNION {[1 .. k -> RunAlphabet] : k \in 1 .. MaxTokens}

\* The file a exists or not when the line is read.
RunFiles == {<<>>, [f \in {Str_a} |-> <<>>]}

\* The interpreter at the call of runPipeline for its k-th line, with the
\* descriptor table t, for the lines of T that main calls runPipeline for.
RunInitWith(T, t, k) ==
    /\ tokens \in {toks \in T : dispatch(<<>>, Str_root, toks) = "run"}
    /\ pipeline = splitIntoPipeline(tokens)
    /\ pc = afterPipes(Len(pipeline), 0)
    /\ outcome = "run"
    /\ nread = k
    /\ env = <<>>
    /\ cwd = Str_root
    /\ termOut = <<>>
    /\ files \in RunFiles
    /\ fdt = t
    /\ pipefds = <<>>
    /\ i = 0
    /\ idx = 0
    /\ pids = <<>>
    /\ w = 1
    /\ status = 0
    /\ exit_status = <<>>
    /\ procs = <<>>
    /\ faults = 0
    /\ m_line = <<>>
    /\ m_i = 0
    /\ out = <<>>

\* runPipeline is called for the first line of a session.
InitRun == RunInitWith(RunTokens, InitialFdt, 1)

NextRun ==
    \/ CreatePipe
    \/ PipeFails
    \/ SkipStage
    \/ ForkChild
    \/ ForkFails
    \/ ParentCloseAll
    \/ WaitChild
    \/ WaitFails
    \/ \E c \in DOMAIN procs : ChildRun(c)
    \/ \E c \in DOMAIN procs : ChildTerminate(c)
    \/ Prompt
    \/ ReadEof

SpecRun == InitRun /\ [][NextRun]_vars

\* The table runPipeline leaves when its first pipe() gave the descriptors
\* 3 and 4 and its second pipe() failed: it returns without closing them.
LeakedFdt == [InitialFdt EXCEPT ![3] = PipeEnd(1, "r"), ![4] = PipeEnd(1, "w")]

\* runPipeline is called for the second line of a session whose first
\* line met that failure.
InitRunAfterPipeFailure == RunInitWith(RunTokens, LeakedFdt, 2)

SpecRunAfterPipeFailure == InitRunAfterPipeFailure /\ [][NextRun]_vars

(***************************************************************************)
(* Scheduling.  Every process that can take a step eventually takes it; a  *)
(* system call eventually returns; a program terminates once its standard  *)
(* input is at end-of-input or its standard output has no reader.  The     *)
(* terminal and regular files are taken to reach end-of-input; a pipe      *)
(* does when no process holds its write end.                               *)
(***************************************************************************)
\* The descriptors that refer to end e of pipe q: <<0, fd>> in the
\* interpreter, <<pid, fd>> in a child.
holders(q, e) ==
    {<<0, fd>> : fd \in {g \in Fds : fdt[g] = PipeEnd(q, e)}}
    \cup {x \in (DOMAIN procs) \X Fds : procs[x[1]].fdt[x[2]] = PipeEnd(q, e)}

atEndOfInput(d) == d.kind = "pipe" => holders(d.pipe, "w") = {}
hasNoReader(d) == d.kind = "pipe" /\ holders(d.pipe, "r") = {}

CanFinish(c) ==
    /\ c \in DOMAIN procs
    /\ procs[c].state = "running"
    /\ atEndOfInput(procs[c].fdt[0]) \/ hasNoReader(procs[c].fdt[1])

\* The pids runPipeline can use for a line of at most MaxTokens tokens.
Pids == 1 .. MaxTokens

Fairness ==
    /\ WF_vars(Prompt)
    /\ WF_vars(ReadEof)
    /\ WF_vars(CreatePipe \/ PipeFails)
    /\ WF_vars(SkipStage)
    /\ WF_vars(ForkChild \/ ForkFails)
    /\ WF_vars(ParentCloseAll)
    /\ WF_vars(WaitChild)
    /\ \A c \in Pids : WF_vars(c \in DOMAIN procs /\ ChildRun(c))
    /\ \A c \in Pids : WF_vars(CanFinish(c) /\ ChildTerminate(c))

SpecRunLive == SpecRun /\ Fairness

(***************************************************************************)
(* extractRedirections on its own: runPipeline is called for a first stage *)
(* drawn from the words a, " a ", <, > and >> (operator texts that reached *)
(* the stage as words), followed by | a.                                   *)
(***************************************************************************)
\* The first stage of SpecExtract has at most MaxStage strings.
MaxStage == 4

Str_a_padded == <<" ", "a", " ">>
StageStrings == {Str_a, Str_a_padded, Str_lt, Str_gt, Str_gtgt}
Stages == UNION {[1 .. k -> StageStrings] : k \in 0 .. MaxStage}

\* The tokens of a line whose pipeline is the stage st and then the stage a.
StageThenA(st) ==
    [j \in 1 .. Len(st) |-> Token(Word, st[j])] \o <<Token(Op, Str_pipe), Token(Word, Str_a)>>

InitExtract == RunInitWith({StageThenA(st) : st \in Stages}, InitialFdt, 1)

SpecExtract == InitExtract /\ [][NextRun]_vars

(***************************************************************************)
(* The Tokenizer on its own: Tokenizer(line).tokenize() for a line over    *)
(* the characters a, blank, the two quotes, the backslash and the          *)
(* operator characters, one iteration of the loop of tokenize a step.      *)
(***************************************************************************)
\* A line of SpecTok has at most MaxLineLen characters.
MaxLineLen == 5

TokChars == {"a", " ", "'", "\"", "\\", ">", "<", "|", "&", ";"}
TokLines == UNION {[1 .. k -> TokChars] : k \in 0 .. MaxLineLen}

InitTok ==
    /\ pc = "tokenize"
    /\ m_line \in TokLines
    /\ m_i = 1
    /\ out = <<>>
    /\ nread = 1
    /\ tokens = <<>>
    /\ pipeline = <<>>
    /\ outcome = "none"
    /\ env = <<>>
    /\ cwd = Str_root
    /\ termOut = <<>>
    /\ files = <<>>
    /\ fdt = InitialFdt
    /\ pipefds = <<>>
    /\ i = 0
    /\ idx = 0
    /\ pids = <<>>
    /\ w = 1
    /\ status = 0
    /\ exit_status = <<>>
    /\ procs = <<>>
    /\ faults = 0

\* What tokenize leaves alone.
tokenizeFrame == <<nread, pipeline, outcome, termOut, m_line, worldVars, frameVars>>

\* An iteration of the loop of tokenize that reads an operator.
TokenizeOperator ==
    /\ pc = "tokenize"
    /\ LET j == skipWhitespace(m_line, m_i)
       IN  /\ ~eof(m_line, j)
           /\ isOperatorStart(peek(m_line, j))
           /\ m_i' = readOperator(m_line, j).pos
           /\ out' = Append(out, Token(Op, readOperator(m_line, j).text))
    /\ UNCHANGED <<pc, tokens>>
    /\ UNCHANGED tokenizeFrame

\* An iteration of the loop of tokenize that reads a word.
TokenizeWord ==
    /\ pc = "tokenize"
    /\ LET j == skipWhitespace(m_line, m_i)
       IN  /\ ~eof(m_line, j)
           /\ ~isOperatorStart(peek(m_line, j))
           /\ m_i' = readWord(m_line, j).pos
           /\ out' = Append(out, Token(Word, readWord(m_line, j).text))
    /\ UNCHANGED <<pc, tokens>>
    /\ UNCHANGED tokenizeFrame

\* The loop of tokenize ends: return out.
TokenizeReturn ==
    /\ pc = "tokenize"
    /\ eof(m_line, skipWhitespace(m_line, m_i))
    /\ m_i' = skipWhitespace(m_line, m_i)
    /\ tokens' = out
    /\ pc' = "tokenized"
    /\ UNCHANGED out
    /\ UNCHANGED tokenizeFrame

NextTok ==
    \/ TokenizeOperator
    \/ TokenizeWord
    \/ TokenizeReturn

SpecTok == InitTok /\ [][NextTok]_vars

\* tokenize runs on: its loop takes its next iteration.
SpecTokLive == SpecTok /\ WF_vars(NextTok)

(***************************************************************************)
(* Properties.                                                             *)
(***************************************************************************)
InRunPipeline == pc \in {"pipe", "spawn", "close", "wait"}
Alive(c) == c \in DOMAIN procs /\ procs[c].state \in {"forked", "running"}
Terminated(c) == c \in DOMAIN procs /\ procs[c].state \in {"zombie", "reaped"}

\* runPipeline was called for the current line and has returned to main.
Returned == pc = "top" /\ outcome = "run" /\ exit_status # <<>>

\* The strings of a pipeline, stage after stage.
RECURSIVE Flatten(_)
Flatten(pl) == IF pl = <<>> THEN <<>> ELSE Head(pl) \o Flatten(Tail(pl))

\* The texts of a token sequence.
Texts(toks) == [j \in 1 .. Len(toks) |-> toks[j].text]

IsPipeOp(t) == t.type = Op /\ t.text = Str_pipe
IsRedirectionOp(t) == t.type = Op /\ t.text \in {Str_lt, Str_gt, Str_gtgt}

\* C1: splitIntoPipeline keeps every Word and every redirection operator
\* (<, >, >>) of the line, in order, in the stages it returns.
C1_RedirectionOperatorsRetained ==
    outcome \in {"nopipeline", "noargv", "builtin", "run"} =>
        Flatten(pipeline) =
            Texts(SelectSeq(tokens, LAMBDA t : t.type = Word \/ IsRedirectionOp(t)))

\* The processes runPipeline spawned for the last stage of the pipeline.
lastStageProcs == {c \in DOMAIN procs : procs[c].call = nread /\ procs[c].idx = n - 1}

\* C2: runPipeline returns the exit status of the process of the last
\* stage when that process exited voluntarily, and -1 otherwise.
C2_ReturnsLastStageStatus ==
    Returned =>
        IF \E c \in lastStageProcs : Terminated(c) /\ WIFEXITED(procs[c].status)
        THEN \A c \in lastStageProcs : exit_status[1] = WEXITSTATUS(procs[c].status)
        ELSE exit_status[1] = -1

\* C3: once runPipeline is entered it returns, and every process it
\* spawned terminates, when every program terminates once its standard
\* input is at end-of-input or its standard output has no reader.
C3_NoStageHangs ==
    /\ InRunPipeline ~> (pc = "top")
    /\ \A c \in Pids : Alive(c) ~> ~Alive(c)

\* runPipeline has returned for a pipeline with an empty middle stage whose
\* first program could not be executed, and both children are gone.
C3_Witness ==
    /\ Returned
    /\ Len(pipeline) = 3 /\ pipeline[2] = <<>>
    /\ Len(pids) = 2
    /\ procs[pids[1]].status = ExitedWith(ExecFailure)
    /\ \A c \in DOMAIN procs : procs[c].state = "reaped"

\* C4: when runPipeline has returned, the interpreter holds no descriptor
\* of a pipe.
C4_NoPipeDescriptorLeft ==
    Returned => \A fd \in Fds : fdt[fd].kind # "pipe"

\* C5: when runPipeline has returned, waitpid has been called for every
\* process it spawned.
C5_EveryChildWaitedFor ==
    Returned => \A c \in DOMAIN procs : procs[c].call = nread => procs[c].waited

\* The line has the form echo w1 ... wk > f or echo w1 ... wk >> f.
isEchoToFile(toks) ==
    /\ Len(toks) >= 3
    /\ toks[1] = Token(Word, Str_echo)
    /\ \A j \in 2 .. Len(toks) - 2 : toks[j].type = Word
    /\ toks[Len(toks) - 1].type = Op /\ toks[Len(toks) - 1].text \in {Str_gt, Str_gtgt}
    /\ toks[Len(toks)].type = Word /\ toks[Len(toks)].text # <<>>

\* C6: a line echo w1 ... wk > f (or >> f), f not existing before, writes
\* nothing to the interpreter's standard output and leaves f holding the
\* echoed text.
C6_EchoWritesToFile ==
    (pc = "top" /\ isEchoToFile(tokens))
        => /\ termOut = <<>>
           /\ tokens[Len(tokens)].text \in DOMAIN files
           /\ files[tokens[Len(tokens)].text] =
                 echoFrom(env, Texts(SubSeq(tokens, 1, Len(tokens) - 2)), 2)

\* Some process can take a step the scheduling guarantees.
someChildCanStep == \E c \in DOMAIN procs : procs[c].state = "forked" \/ CanFinish(c)

\* C7: the loop is left only on end-of-input or on a line whose tokens are
\* the single Word exit; on any other line the interpreter is never stuck:
\* where it waits for a child that has not terminated, some child can step.
C7_LoopEndsOnlyOnEofOrBareExit ==
    /\ pc = "done" => (outcome = "eof" \/ tokens = <<Token(Word, Str_exit)>>)
    /\ tokens = <<Token(Word, Str_exit)>> => pc = "done"
    /\ pc = "wait" => (procs[pids[w]].state = "zombie" \/ someChildCanStep)

\* A pipeline starting with exit has failed on fork and the interpreter is
\* back at the top of its loop.
C7_Witness ==
    /\ Returned
    /\ exit_status = <<-1>>
    /\ tokens[1] = Token(Word, Str_exit)
    /\ pids # <<>>

\* The cleaned arguments of a line of one stage; <<>> for any other line.
soleArgv(toks) ==
    LET pl == splitIntoPipeline(toks)
    IN  IF Len(pl) = 1 THEN extractRedirections(pl[1]).argv ELSE <<>>

isBuiltin(cmd) == cmd \in {Str_cd, Str_exit, Str_pwd, Str_echo}

\* C8: a line of one stage whose cleaned arguments start with cd, pwd,
\* echo or exit runs in the interpreter: the step that reads it, and every
\* step until the next prompt, calls no runPipeline, creates no pipe (the
\* interpreter's descriptors stay as they were) and spawns no process.
C8_BuiltinsRunInParent ==
    [][(soleArgv(tokens') # <<>> /\ isBuiltin(soleArgv(tokens')[1]))
        => /\ outcome' \in {"builtin", "exit"}
           /\ pc' \in {"top", "done"}
           /\ pipefds' = <<>> /\ pids' = <<>>
           /\ fdt' = fdt
           /\ DOMAIN procs' \subseteq DOMAIN procs]_vars

\* pwd with an argument has run in the interpreter.
C8_Witness ==
    /\ pc = "top"
    /\ outcome = "builtin"
    /\ Len(soleArgv(tokens)) = 2
    /\ soleArgv(tokens)[1] = Str_pwd
    /\ termOut = cwd \o Str_nl

\* C9: a line all of whose stages are empty creates no pipe and spawns no
\* process.
C9_EmptyLineIsNoOp ==
    (outcome # "none" /\ \A j \in 1 .. Len(pipeline) : pipeline[j] = <<>>)
        => /\ pipefds = <<>>
           /\ fdt = InitialFdt
           /\ procs = <<>>

\* cd with the arguments argv fails in the directory dir: HOME is unset or
\* empty, or the target is no directory.
cdFails(e, dir, argv) ==
    /\ argv # <<>> /\ argv[1] = Str_cd
    /\ IF Len(argv) = 1
       THEN \/ getenv_or_empty(e, Str_HOME) = <<>>
            \/ resolvePath(dir, getenv_or_empty(e, Str_HOME)) \notin Dirs
       ELSE resolvePath(dir, argv[2]) \notin Dirs

\* C10: a cd that fails leaves the working directory as it was and is
\* handled: the loop continues and nothing is spawned.
C10_FailedCdKeepsDirectory ==
    [][(pc = "read" /\ cdFails(env, cwd, soleArgv(tokens')))
          => /\ cwd' = cwd
             /\ pc' = "top"
             /\ outcome' = "builtin"
             /\ procs' = procs /\ pids' = <<>> /\ pipefds' = <<>>]_vars

\* cd to a path that is no directory has been handled.
C10_Witness ==
    /\ pc = "top"
    /\ outcome = "builtin"
    /\ Len(soleArgv(tokens)) = 2
    /\ cdFails(env, cwd, soleArgv(tokens))

(***************************************************************************)
(* The reference rules for words: a scanner that reads the line character  *)
(* by character and is in one of three modes, with a flag for a pending    *)
(* backslash.                                                              *)
(***************************************************************************)
RefOperatorChars == {"|", "<", ">", "&", ";"}

RefStart == [mode |-> "plain", esc |-> FALSE, inword |-> FALSE, cur |-> <<>>,
             words |-> <<>>]

\* The word being built, if any, is complete.
RefEmit(s) ==
    IF s.inword
    THEN [s EXCEPT !.words = Append(@, s.cur), !.cur = <<>>, !.inword = FALSE]
    ELSE s

RefChar(s, c) ==
    IF s.esc THEN [s EXCEPT !.esc = FALSE, !.cur = Append(@, c)]
    ELSE IF s.mode = "single"
         THEN IF c = "'" THEN [s EXCEPT !.mode = "plain"]
              ELSE [s EXCEPT !.cur = Append(@, c)]
    ELSE IF s.mode = "double"
         THEN IF c = "\"" THEN [s EXCEPT !.mode = "plain"]
              ELSE IF c = "\\" THEN [s EXCEPT !.esc = TRUE]
              ELSE [s EXCEPT !.cur = Append(@, c)]
    ELSE IF isspace(c) \/ c \in RefOperatorChars THEN RefEmit(s)
    ELSE IF c = "'" THEN [s EXCEPT !.mode = "single", !.inword = TRUE]
    ELSE IF c = "\"" THEN [s EXCEPT !.mode = "double", !.inword = TRUE]
    ELSE IF c = "\\" THEN [s EXCEPT !.esc = TRUE, !.inword = TRUE]
    ELSE [s EXCEPT !.cur = Append(@, c), !.inword = TRUE]

\* End of line: a backslash that nothing follows is dropped outside quotes
\* (the rules leave open what it is inside double quotes: it is kept).
RefEnd(s) ==
    RefEmit(IF s.esc /\ s.mode = "double" THEN [s EXCEPT !.cur = Append(@, "\\")]
            ELSE s)

RECURSIVE RefScan(_, _, _)
RefScan(line, k, s) ==
    IF k > Len(line) THEN RefEnd(s) ELSE RefScan(line, k + 1, RefChar(s, line[k]))

RefWords(line) == RefScan(line, 1, RefStart).words

IsWord(t) == t.type = Word

\* C11: the Word tokens tokenize returns for a line are the words of the
\* reference rules (quoted, escaped and plain spans that touch form one
\* word; an unterminated quote reads to the end of the line), and tokenize
\* taken iteration by iteration returns what tokenize(line) is.
C11_WordsMatchReference ==
    pc = "tokenized"
        => /\ Texts(SelectSeq(tokens, IsWord)) = RefWords(m_line)
           /\ tokens = tokenize(m_line)

\* A line with an escaped double quote inside a double-quoted span next to a
\* plain span has been tokenized to one word.
C11_Witness ==
    /\ pc = "tokenized"
    /\ m_line = <<"a", "\"", "\\", "\"", "\"">>
    /\ tokens = <<Token(Word, <<"a", "\"">>)>>

(***************************************************************************)
(* The children of runPipeline.                                            *)
(***************************************************************************)
\* The child c reaches its program in this step.
ReachesExec(c) ==
    /\ c \in DOMAIN procs
    /\ procs[c].state = "forked"
    /\ procs'[c].state = "running"

\* In the table t of a child at its fork, the descriptors the orchestrator
\* pushed for its k-th pipe (k from 0) are the two ends of one pipe.
IsPipeAt(t, fds, k) ==
    \E q \in 1 .. MaxFd : /\ t[fds[2 * k + 1]] = PipeEnd(q, "r")
                          /\ t[fds[2 * k + 2]] = PipeEnd(q, "w")

\* What the claim says standard input and standard output of the child p
\* are at exec, from the table it was forked with.
WiredStdin(p) ==
    IF p.rinfo.stdin_file # <<>> THEN File(p.rinfo.stdin_file, "r")
    ELSE IF p.idx > 0 THEN p.fdt[p.pipefds[2 * (p.idx - 1) + 1]]
    ELSE p.fdt[0]

WiredStdout(p) ==
    IF p.rinfo.stdout_file # <<>>
    THEN File(p.rinfo.stdout_file, IF p.rinfo.stdout_append THEN "a" ELSE "w")
    ELSE IF p.idx + 1 < p.n THEN p.fdt[p.pipefds[2 * p.idx + 2]]
    ELSE p.fdt[1]

\* C12: when the child of stage idx of n stages reaches exec, its standard
\* input is the file of its input redirection if it has one, else the read
\* end of pipe idx-1 if idx > 0, else what it inherited; its standard
\* output is the file of its output redirection if it has one, else the
\* write end of pipe idx if idx+1 < n, else what it inherited.
C12_ChildWiringAtExec ==
    [][\A c \in DOMAIN procs :
          ReachesExec(c) =>
             LET p == procs[c]
             IN  /\ \A k \in 0 .. p.n - 2 : IsPipeAt(p.fdt, p.pipefds, k)
                 /\ procs'[c].fdt[0] = WiredStdin(p)
                 /\ procs'[c].fdt[1] = WiredStdout(p)]_vars

\* The child of the second of two stages, with an input redirection, runs
\* with the file on its standard input, and the child of the first stage
\* with the write end of the pipe on its standard output.
C12_Witness ==
    \E c, d \in DOMAIN procs :
        /\ procs[c].state = "running" /\ procs[d].state = "running"
        /\ procs[c].idx = 1 /\ procs[c].rinfo.stdin_file = Str_a
        /\ procs[c].fdt[0] = File(Str_a, "r")
        /\ procs[d].idx = 0
        /\ procs[d].fdt[1].kind = "pipe" /\ procs[d].fdt[1].end = "w"

\* C13: when a child reaches exec, every descriptor of pipefds is closed in
\* it, and the only ends of pipes it holds are, on its standard input, the
\* read end of the pipe before its stage and, on its standard output, the
\* write end of the pipe after its stage.
C13_ChildHoldsOnlyItsPipeEnds ==
    [][\A c \in DOMAIN procs :
          ReachesExec(c) =>
             LET p == procs[c]
                 t == procs'[c].fdt
             IN  /\ \A j \in 1 .. Len(p.pipefds) : t[p.pipefds[j]] = Closed
                 /\ \A fd \in Fds :
                       t[fd].kind = "pipe"
                          => \/ fd = 0 /\ p.idx > 0
                                /\ t[0] = p.fdt[p.pipefds[2 * (p.idx - 1) + 1]]
                             \/ fd = 1 /\ p.idx + 1 < p.n
                                /\ t[1] = p.fdt[p.pipefds[2 * p.idx + 2]]]_vars

\* Stage j (from 0) of the pipeline has arguments once it is cleaned.
NonEmptyStage(j) == extractRedirections(pipeline[j + 1]).argv # <<>>

\* The stages the processes of pids were spawned for, in the order of pids.
SpawnedStages == [k \in 1 .. Len(pids) |-> procs[pids[k]].idx]

\* C14: in runPipeline and after it, the processes spawned are, in order,
\* one for each stage with a non-empty cleaned argument list among the
\* stages the spawn loop has gone through, each with that argument list
\* and none with an empty one; a spawn loop that ends without a failing
\* fork has gone through every stage.
C14_OneProcessPerNonEmptyStage ==
    (InRunPipeline \/ Returned)
        => /\ SpawnedStages = SelectSeq([j \in 1 .. idx |-> j - 1], NonEmptyStage)
           /\ \A k \in 1 .. Len(pids) :
                 procs[pids[k]].argv
                    = extractRedirections(pipeline[procs[pids[k]].idx + 1]).argv
           /\ \A c \in DOMAIN procs : procs[c].argv # <<>>
           /\ DOMAIN procs = {pids[k] : k \in 1 .. Len(pids)}
           /\ Cardinality(DOMAIN procs) = Len(pids)
           /\ pc \in {"close", "wait"} => idx = n

\* runPipeline has returned for a | | a: two processes, for the stages 0
\* and 2.
C14_Witness ==
    /\ Returned
    /\ Len(pipeline) = 3
    /\ SpawnedStages = <<0, 2>>
    /\ pipeline[2] = <<>>

\* The child c leaves its setup in this step.
LeavesSetup(c) ==
    /\ c \in DOMAIN procs
    /\ procs[c].state = "forked"
    /\ procs'[c].state # "forked"

\* C15: a child whose setup fails (a descriptor cannot be duplicated, a
\* redirection file cannot be opened, the program cannot be executed)
\* never runs a program and is a zombie with exit status 127; its failing
\* changes neither the interpreter's position, descriptors and pids nor
\* any other process; a child whose input file does not exist does fail;
\* and whenever runPipeline returns from the end of its spawn loop with no
\* fork or waitpid failure of its own, it has closed its pipe descriptors
\* and waited for every child, failed or not.
C15_FailingChildExits127 ==
    /\ [][\A c \in DOMAIN procs :
             LeavesSetup(c) =>
                /\ procs'[c].state = "running"
                      => (procs[c].rinfo.stdin_file # <<>>
                             => procs[c].rinfo.stdin_file \in DOMAIN files)
                /\ procs'[c].state # "running"
                      => /\ procs'[c].state = "zombie"
                         /\ WIFEXITED(procs'[c].status)
                         /\ WEXITSTATUS(procs'[c].status) = 127
                         /\ DOMAIN procs' = DOMAIN procs
                         /\ \A d \in DOMAIN procs \ {c} : procs'[d] = procs[d]
                         /\ UNCHANGED <<pc, fdt, pipefds, i, idx, pids, w, status,
                                        exit_status, pipeline, cwd>>]_vars
    /\ [](Returned /\ idx = n /\ faults = 0
            => /\ fdt = InitialFdt
               /\ \A c \in DOMAIN procs : procs[c].waited /\ procs[c].state = "reaped")

\* runPipeline has returned for a < a | a where no file a exists: the
\* first child failed with 127, the second ran and exited with 0, and both
\* were waited for.
C15_Witness ==
    /\ Returned
    /\ faults = 0
    /\ Len(pids) = 2
    /\ procs[pids[1]].rinfo.stdin_file = Str_a
    /\ Str_a \notin DOMAIN files
    /\ procs[pids[1]].status = ExitedWith(127)
    /\ procs[pids[2]].status = ExitedWith(0)
    /\ procs[pids[1]].waited /\ procs[pids[2]].waited
    /\ exit_status = <<0>>

(***************************************************************************)
(* extractRedirections against its description.                            *)
(***************************************************************************)
IsRedirectionText(x) == x \in {<<"<">>, <<">">>, <<">", ">">>}

MaxOf(K) == CHOOSE k \in K : \A j \in K : j <= k

\* x without the whitespace at its two ends.
RefTrim(x) ==
    LET solid == {k \in 1 .. Len(x) : ~isspace(x[k])}
    IN  IF solid = {} THEN <<>>
        ELSE SubSeq(x, CHOOSE k \in solid : \A j \in solid : k <= j, MaxOf(solid))

\* What the strings of a stage are when it is scanned from the left: the
\* string after an operator is its filename, whatever its text; a string
\* that is no filename is an operator if it has the text of one, else an
\* argument.
RECURSIVE Role(_, _)
Role(st, k) ==
    IF k > 1 /\ Role(st, k - 1) = "operator" THEN "filename"
    ELSE IF IsRedirectionText(st[k]) THEN "operator"
    ELSE "argument"

\* The strings of st at the positions of P, in order.
RECURSIVE Pick(_, _, _)
Pick(st, P, k) ==
    IF k > Len(st) THEN <<>>
    ELSE (IF k \in P THEN <<st[k]>> ELSE <<>>) \o Pick(st, P, k + 1)

\* The result the description gives for the operators at the positions Ops
\* of st, with the arguments at the positions Args.
Described(st, Ops, Args) ==
    LET ins == {k \in Ops : st[k] = <<"<">> /\ k < Len(st)}
        outs == {k \in Ops : st[k] # <<"<">> /\ k < Len(st)}
    IN  [argv |-> Pick(st, Args, 1),
         rinfo |-> [stdin_file |-> IF ins = {} THEN <<>> ELSE RefTrim(st[MaxOf(ins) + 1]),
                    stdout_file |-> IF outs = {} THEN <<>> ELSE RefTrim(st[MaxOf(outs) + 1]),
                    stdout_append |-> outs # {} /\ st[MaxOf(outs)] = <<">", ">">>]]

\* The operators are the strings the scan meets as operators.
DescribedByScan(st) ==
    Described(st, {k \in 1 .. Len(st) : Role(st, k) = "operator"},
                  {k \in 1 .. Len(st) : Role(st, k) = "argument"})

\* The operators are all the strings with the text of an operator, and the
\* filenames all the strings that follow one.
DescribedByText(st) ==
    LET ops == {k \in 1 .. Len(st) : IsRedirectionText(st[k])}
    IN  Described(st, ops, {k \in 1 .. Len(st) : k \notin ops /\ k - 1 \notin ops})

\* The child spawned for the first stage, if there is one, has the
\* arguments and redirections r; there is none if r has no arguments.
FirstStageRunsAs(r) ==
    /\ \A c \in DOMAIN procs :
          procs[c].idx = 0 => procs[c].argv = r.argv /\ procs[c].rinfo = r.rinfo
    /\ idx >= 1 /\ InRunPipeline => (r.argv = <<>> <=> \A c \in DOMAIN procs : procs[c].idx # 0)

\* C16 as stated: once the spawn loop has cleaned the first stage, what it
\* got is what the description gives: the input path is the trimmed string after the last <
\* that has a successor, the output path the trimmed string after the last
\* > or >> that has a successor, appending exactly if that is >>, and the
\* arguments are the stage without its operators and the filenames after
\* them.
C16_ExtractRedirectionsByText ==
    (pipeline # <<>> /\ idx >= 1)
        => /\ extractRedirections(pipeline[1]) = DescribedByText(pipeline[1])
           /\ FirstStageRunsAs(DescribedByText(pipeline[1]))

\* C16 amended: the same, where a string that follows an operator is that
\* operator's filename and never an operator itself, and a string that
\* follows a filename is never a filename.
C16_ExtractRedirectionsByScan ==
    (pipeline # <<>> /\ idx >= 1)
        => /\ extractRedirections(pipeline[1]) = DescribedByScan(pipeline[1])
           /\ FirstStageRunsAs(DescribedByScan(pipeline[1]))

\* A child runs for the stage a >> " a " >: it appends to a, and the last
\* > is dropped.
C16_Witness ==
    /\ pipeline # <<>>
    /\ pipeline[1] = <<Str_a, Str_gtgt, Str_a_padded, Str_gt>>
    /\ \E c \in DOMAIN procs :
          /\ procs[c].idx = 0
          /\ procs[c].argv = <<Str_a>>
          /\ procs[c].rinfo = [stdin_file |-> <<>>, stdout_file |-> Str_a,
                               stdout_append |-> TRUE]

\* C17: the pipeline splitIntoPipeline returns for the tokens of a line
\* does not end with an empty stage.
C17_NoTrailingEmptyStage ==
    /\ pipeline = <<>> \/ pipeline[Len(pipeline)] # <<>>
    /\ splitIntoPipeline(tokens) = <<>>
          \/ splitIntoPipeline(tokens)[Len(splitIntoPipeline(tokens))] # <<>>

OperatorTexts == {<<"|">>, <<"<">>, <<">">>, <<">", ">">>, <<"&">>, <<";">>}

\* The token tokenize has just pushed is the text it consumed if it is an
\* operator, and a > it pushed is not followed by another >.
LastIsWholeOperator ==
    LET t == out'[Len(out')]
    IN  t.type = Op
           => /\ t.text \in OperatorTexts
              /\ t.text = SubSeq(m_line, m_i' - Len(t.text), m_i' - 1)
              /\ t.text = <<">">> => (m_i' > Len(m_line) \/ m_line[m_i'] # ">")

\* C18: tokenize ends on every line; its position never goes back and
\* stays within the line; every iteration of its loop consumes at least
\* one character and pushes one token; the operators it pushes have the
\* texts |, <, >, >>, & or ;, with >> for a > that another > follows; and
\* it returns at most as many tokens as the line has characters.
C18_TokenizeTerminates ==
    /\ [][/\ m_i' >= m_i
          /\ pc' = "tokenize" => /\ m_i' > m_i
                                 /\ Len(out') = Len(out) + 1
                                 /\ LastIsWholeOperator]_vars
    /\ [](m_i <= Len(m_line) + 1)
    /\ [](pc = "tokenized" => Len(tokens) <= Len(m_line))
    /\ <>(pc = "tokenized")

\* tokenize has returned for >>>'\ : the operators >> and >, and a word
\* from an unterminated quote that ends in a backslash.
C18_Witness ==
    /\ pc = "tokenized"
    /\ m_line = <<">", ">", ">", "'", "\\">>
    /\ tokens = <<Token(Op, <<">", ">">>), Token(Op, <<">">>), Token(Word, <<"\\">>)>>

\* The tokens of stage k (from 0) of a line: those between its k-th and
\* its next | operator.
RECURSIVE StageTokens(_, _)
StageTokens(toks, k) ==
    IF toks = <<>> THEN <<>>
    ELSE IF IsPipeOp(Head(toks))
         THEN IF k = 0 THEN <<>> ELSE StageTokens(Tail(toks), k - 1)
    ELSE IF k = 0 THEN <<Head(toks)>> \o StageTokens(Tail(toks), 0)
    ELSE StageTokens(Tail(toks), k)

IsOperatorWord(t) == t.type = Word /\ IsRedirectionText(t.text)

\* C19: the words <, > and >> of a stage (operator characters that were
\* quoted or escaped on the line) are arguments of the stage's program, in
\* their order, and a stage without a redirection Operator token has no
\* redirection.
C19_QuotedOperatorIsArgument ==
    \A c \in DOMAIN procs :
        LET st == StageTokens(tokens, procs[c].idx)
        IN  procs[c].call = nread
               => /\ SelectSeq(procs[c].argv, IsRedirectionText)
                        = Texts(SelectSeq(st, IsOperatorWord))
                  /\ (\A j \in 1 .. Len(st) : ~IsRedirectionOp(st[j]))
                        => procs[c].rinfo = NoRedirection

\* C20: no step of runPipeline or of its children changes what the
\* interpreter's descriptors 0 and 1 refer to or its working directory, or
\* gives the interpreter a descriptor of a redirection file; the next
\* prompt reads and writes the terminal the session started with.
C20_InterpreterStreamsUnchanged ==
    /\ [][/\ fdt'[0] = fdt[0]
          /\ fdt'[1] = fdt[1]
          /\ cwd' = cwd
          /\ \A fd \in Fds : fdt'[fd].kind # "file"]_vars
    /\ [](pc \in {"top", "read"} => fdt[0] = Tty /\ fdt[1] = Tty /\ cwd = Str_root)

\* runPipeline has returned for a two-stage pipeline whose second child
\* wrote to the file a.
C20_Witness ==
    /\ Returned
    /\ Len(pids) = 2
    /\ procs[pids[2]].rinfo.stdout_file = Str_a
    /\ procs[pids[2]].state = "reaped"
    /\ procs[pids[2]].status = ExitedWith(0)
    /\ procs[pids[1]].idx = 0
    /\ Str_a \in DOMAIN files
    /\ fdt = InitialFdt
====
